---- MODULE Spec2Model ----
(***************************************************************************)
(* Model of meridiano/static/js/index.js: the collections menus of a page  *)
(* (toggleCollectionsMenu and its fetch continuation) and the document     *)
(* level click listener (add/remove buttons, click-outside-to-dismiss).    *)
(*                                                                         *)
(* The page runs on a single-threaded event loop: every action below is    *)
(* one uninterrupted run of a handler, from its start (or from the         *)
(* resumption after an await) to its next await or its end.                *)
(***************************************************************************)
EXTENDS Integers, Sequences, FiniteSets, Bags, TLC

(***************************************************************************)
(* Bounds of the model.  The handlers themselves bound nothing: a guard on *)
(* the two counters below keeps the state space finite.                    *)
(***************************************************************************)
MaxGets == 2        \* GET collections_status requests sent over the page lifetime
MaxPosts == 1       \* add/remove POST requests sent over the page lifetime

(***************************************************************************)
(* The page: the ids of its .collections-menu elements, as the sequences   *)
(* of their characters (a TLA+ string cannot be taken apart).              *)
(***************************************************************************)
MenuIds == { <<"m", "-", "7">>, <<"c", "-", "m", "-", "8">> }

(* The collections the server knows, with their display names. *)
CollectionIds == <<"c1", "c2">>
NameOf(id) == IF id = "c1" THEN "News" ELSE "Later"

(* String.prototype.split('-'): the segments between the separators. *)
RECURSIVE split(_)
split(s) ==
    IF s = <<>> THEN << <<>> >>
    ELSE LET r == split(Tail(s))
         IN  IF Head(s) = "-" THEN << <<>> >> \o r
             ELSE << <<Head(s)>> \o Head(r) >> \o Tail(r)

(* Array.prototype.pop(): the last element. *)
pop(a) == a[Len(a)]

(* const articleId = menuId.split('-').pop(); *)
articleIdOf(menuId) == pop(split(menuId))

VARIABLES
    display,    \* display[m]: style.display of menu m ("" until a handler sets it)
    innerHTML,  \* innerHTML[m]: what the .collections-menu-content of m holds
    loaded,     \* loaded[m]: contentDiv.dataset.loaded is set
    pending,    \* pending[m]: suspended toggleCollectionsMenu calls awaiting their GET
    issued,     \* issued[m]: GET collections_status requests sent for m so far
    posts,      \* the bag of suspended click handlers awaiting their POST
    posted,     \* POST requests sent so far
    last,       \* the handler run that produced this state, with the number
                \* of requests it sent and of alerts it showed (history)
    inputs,     \* inputs[id]: the input #id of the page and its value
    dateFilter, \* style.display of #date-filter-content and text of its toggle icon
    ready,      \* the DOMContentLoaded listener has run
    member,     \* server: member[<<articleId, collectionId>>]
    answers,    \* server: bodies of the GETs it has processed, not yet delivered
    acks        \* server: the POSTs it has applied, their 'ok' not yet delivered

menuVars == <<display, innerHTML, loaded, pending, issued, posts, posted>>
dateVars == <<inputs, dateFilter, ready>>
serverVars == <<member, answers, acks>>
vars == <<menuVars, last, dateVars, serverVars>>

(***************************************************************************)
(* The content of a .collections-menu-content element.                     *)
(***************************************************************************)
Plain(text) ==
    [text |-> text, errorMessage |-> FALSE, createLink |-> FALSE,
     listContainer |-> FALSE, entries |-> <<>>, footer |-> FALSE]

Template == Plain("")                  \* what the server-rendered page holds
Loading == Plain("Loading...")         \* line 38
ErrorLoading ==                        \* line 67
    [Plain("Error loading.") EXCEPT !.errorMessage = TRUE]
NoCollections ==                       \* line 58
    [Plain("No collections yet.") EXCEPT !.createLink = TRUE]

(* The two button variants of lines 51-52 and 111-112. *)
removeButton(collectionId, articleId, name, node) ==
    [class |-> "btn-remove-from-collection", collectionId |-> collectionId,
     articleId |-> articleId, title |-> <<"Remove from", name>>, node |-> node]

addButton(collectionId, articleId, name, node) ==
    [class |-> "btn-add-to-collection", collectionId |-> collectionId,
     articleId |-> articleId, title |-> <<"Add to", name>>, node |-> node]

(* Faulty variant of collectionEntry: the two branches of line 50 swapped. *)
collectionEntryInverted(c, articleId, node) ==
    [collectionId |-> c.id, name |-> c.name,
     button |-> IF c.contains THEN addButton(c.id, articleId, c.name, node)
                ELSE removeButton(c.id, articleId, c.name, node)]

(* One .collection-entry row (lines 50-53); its button is a new element. *)
collectionEntry(c, articleId, node) ==
    [collectionId |-> c.id, name |-> c.name,
     button |-> IF c.contains THEN removeButton(c.id, articleId, c.name, node)
                ELSE addButton(c.id, articleId, c.name, node)]

(* Faulty variant of renderCollections: line 47 without its length test. *)
renderListAlways(data, articleId, nodes) ==
    [text |-> "", errorMessage |-> FALSE, createLink |-> FALSE,
     listContainer |-> TRUE,
     entries |-> [i \in 1..Len(data.collections) |->
                    collectionEntry(data.collections[i], articleId, nodes[i])],
     footer |-> TRUE]

(* Faulty variant of renderCollections: the footer of line 56 left out. *)
renderWithoutFooter(data, articleId, nodes) ==
    IF data.present /\ Len(data.collections) > 0
    THEN [text |-> "", errorMessage |-> FALSE, createLink |-> FALSE,
          listContainer |-> TRUE,
          entries |-> [i \in 1..Len(data.collections) |->
                         collectionEntry(data.collections[i], articleId, nodes[i])],
          footer |-> FALSE]
    ELSE NoCollections

(* The html of lines 46-59 for a response with status 'ok'. *)
renderCollections(data, articleId, nodes) ==
    IF data.present /\ Len(data.collections) > 0
    THEN [text |-> "", errorMessage |-> FALSE, createLink |-> FALSE,
          listContainer |-> TRUE,
          entries |-> [i \in 1..Len(data.collections) |->
                         collectionEntry(data.collections[i], articleId, nodes[i])],
          footer |-> TRUE]
    ELSE NoCollections

(***************************************************************************)
(* What the server can answer.                                             *)
(***************************************************************************)
Collection ==
    { [id |-> CollectionIds[k], name |-> NameOf(CollectionIds[k]), contains |-> b] :
        k \in 1..Len(CollectionIds), b \in BOOLEAN }

(* The lists a server returns: the collections that exist, in its order     *)
(* (none, the first, or both), each with any contains flag.                *)
CollectionLists ==
    { l \in UNION { [1..n -> Collection] : n \in 0..Len(CollectionIds) } :
        \A i \in 1..Len(l) : l[i].id = CollectionIds[i] }

(* The body of a status 'ok' answer: collections may be absent. *)
OkBodies ==
    { [present |-> TRUE, collections |-> l] : l \in CollectionLists }
    \cup { [present |-> FALSE, collections |-> <<>>] }

NoBody == [present |-> FALSE, collections |-> <<>>]

(* The ways a request fails: !response.ok, status other than 'ok', a throw. *)
Failures == {"http", "status", "thrown"}

(* The sum of a counter over the menus. *)
Total(f) == LET RECURSIVE Sum(_)
                Sum(S) == IF S = {} THEN 0
                          ELSE LET x == CHOOSE y \in S : TRUE IN f[x] + Sum(S \ {x})
            IN  Sum(DOMAIN f)

(***************************************************************************)
(* Element identity.  A <button> is known by its node: the menu and row it *)
(* was created in and a number that tells it from the other buttons of     *)
(* that row still in use, which are the one in the document and those a    *)
(* suspended click handler holds as its event target.  (An element nothing *)
(* refers to is gone for good, so its number is free again.)               *)
(***************************************************************************)
NodesInUse ==
    { innerHTML[x[1]].entries[x[2]].button.node :
        x \in { y \in MenuIds \X (1..Len(CollectionIds)) :
                  y[2] <= Len(innerHTML[y[1]].entries) } }
    \cup { p.target : p \in BagToSet(posts) }

createElement(menuId, i) ==
    LET used == { n.nth : n \in { u \in NodesInUse : u.menu = menuId /\ u.row = i } }
    IN  [menu |-> menuId, row |-> i,
         nth |-> CHOOSE k \in 1..(Cardinality(used) + 1) :
                    k \notin used /\ \A j \in 1..(k - 1) : j \in used]

(***************************************************************************)
(* What one handler run did: which handler (op) on which menu, the menus   *)
(* it hid, whether the click target of an answered POST was still in the   *)
(* document (inPlace), the body of an answered GET (data), and how many    *)
(* requests it sent and alerts it showed.                                  *)
(***************************************************************************)
Ran(op, menu, hid, inPlace, data, fetches, alerts) ==
    [op |-> op, menu |-> menu, hid |-> hid, inPlace |-> inPlace, data |-> data,
     fetches |-> fetches, alerts |-> alerts]

NoMenu == <<>>

Visible == { m \in MenuIds : display[m] = "block" }

(* The collections menus before any handler ran. *)
Closed ==
    /\ display = [m \in MenuIds |-> ""]
    /\ innerHTML = [m \in MenuIds |-> Template]
    /\ loaded = [m \in MenuIds |-> FALSE]
    /\ pending = [m \in MenuIds |-> 0]
    /\ issued = [m \in MenuIds |-> 0]
    /\ posts = EmptyBag
    /\ posted = 0
    /\ last = Ran("load", NoMenu, {}, FALSE, NoBody, 0, 0)

(***************************************************************************)
(* The date filter, lines 1-11 and 71-79.                                  *)
(***************************************************************************)
(* An <input> of the page with its value; Absent when the page has none. *)
Input(value) == [present |-> TRUE, value |-> value]
Absent == [present |-> FALSE, value |-> ""]
DateInputIds == {"start_date", "end_date"}
DateValues == {"", "2024-01-01", "2024-12-31"}

(* Faulty variant of isHidden: the '' case of line 4 left out. *)
isNone(style) == style = "none"

(* Line 4: content.style.display === 'none' || content.style.display === ''. *)
isHidden(style) == style = "none" \/ style = ""

(* Lines 4-10: what one call of toggleDateFilters leaves. *)
toggled(filter) ==
    IF isHidden(filter.display)
    THEN [display |-> "block", icon |-> "-"]
    ELSE [display |-> "none", icon |-> "+"]

(* document.getElementById(id): null when the page has no such element. *)
getElementById(id) == IF inputs[id].present THEN id ELSE "null"

(* A string is truthy when it is not empty. *)
truthy(value) == value # ""

(* Lines 75-76: the test that decides whether the filter is expanded. *)
datesArePresent ==
    LET startDateEl == getElementById("start_date")
        endDateEl == getElementById("end_date")
    IN  /\ startDateEl # "null" /\ endDateEl # "null"
        /\ truthy(inputs[startDateEl].value) \/ truthy(inputs[endDateEl].value)

(* Lines 71-82: the DOMContentLoaded listener; it runs once. *)
DOMContentLoaded ==
    /\ ~ready
    /\ ready' = TRUE
    /\ dateFilter' = IF datesArePresent THEN toggled(dateFilter) ELSE dateFilter
    /\ last' = Ran("DOMContentLoaded", NoMenu, {}, FALSE, NoBody, 0, 0)
    /\ UNCHANGED <<inputs, menuVars, serverVars>>

(* Lines 1-11: a click on the date filter toggle of the loaded page. *)
toggleDateFilters ==
    /\ ready
    /\ dateFilter' = toggled(dateFilter)
    /\ last' = Ran("toggleDateFilters", NoMenu, {}, FALSE, NoBody, 0, 0)
    /\ UNCHANGED <<inputs, ready, menuVars, serverVars>>

(* The user edits a date input of the loaded page. *)
typeDate(id, value) ==
    /\ ready
    /\ inputs[id].present
    /\ inputs[id].value # value
    /\ inputs' = [inputs EXCEPT ![id] = Input(value)]
    /\ last' = Ran("typeDate", NoMenu, {}, FALSE, NoBody, 0, 0)
    /\ UNCHANGED <<dateFilter, ready, menuVars, serverVars>>

(* The articles of the page and a server that has answered nothing yet. *)
ArticleIds == { articleIdOf(m) : m \in MenuIds }
Memberships == [ArticleIds \X { CollectionIds[k] : k \in 1..Len(CollectionIds) } -> BOOLEAN]
NoMembers == [x \in DOMAIN CHOOSE f \in Memberships : TRUE |-> FALSE]

Idle ==
    /\ answers = [m \in MenuIds |-> EmptyBag]
    /\ acks = EmptyBag

(* A page as the server renders it: the filter collapsed, any date inputs. *)
InitDate ==
    /\ Closed
    /\ Idle
    /\ member = NoMembers
    /\ inputs \in [DateInputIds -> { Input(v) : v \in DateValues } \cup {Absent}]
    /\ dateFilter \in { [display |-> d, icon |-> "+"] : d \in {"", "none"} }
    /\ ready = FALSE

NextDate ==
    \/ DOMContentLoaded
    \/ toggleDateFilters
    \/ \E id \in DateInputIds, v \in DateValues : typeDate(id, v)

SpecDate == InitDate /\ [][NextDate]_vars

(* For the collections menus: a loaded page without date inputs. *)
Init ==
    /\ Closed
    /\ inputs = [id \in DateInputIds |-> Absent]
    /\ dateFilter = [display |-> "", icon |-> "+"]
    /\ ready = TRUE
    /\ Idle
    /\ member = NoMembers

(* Faulty variant of hideOthers: the loop of lines 18-22 left out. *)
hideNone(menuId) == display

(* Lines 18-22: every menu but menuId gets display 'none'. *)
hideOthers(menuId) ==
    [m \in MenuIds |-> IF m # menuId THEN "none" ELSE display[m]]

(* Faulty variant of isVisible: the toggle-off test never succeeds. *)
neverVisible(menuId) == FALSE

(* Line 24: const isVisible = targetMenu.style.display === 'block'. *)
isVisible(menuId) == display[menuId] = "block"

(* Faulty variant of alreadyLoaded: the flag is not looked at. *)
neverLoaded(menuId) == FALSE

(* Faulty variant of alreadyLoaded: a fetch under way counts as loaded. *)
loadedOrLoading(menuId) == loaded[menuId] \/ pending[menuId] > 0

(* Line 33: if (contentDiv.dataset.loaded). *)
alreadyLoaded(menuId) == loaded[menuId]

(* Faulty variant of markLoaded: the flag is never set. *)
markNothing(menuId) == loaded

(* Line 61: contentDiv.dataset.loaded = 'true'. *)
markLoaded(menuId) == [loaded EXCEPT ![menuId] = TRUE]

(***************************************************************************)
(* The click event of a menu's toggle button.  The button is shown while   *)
(* its menu is hidden, so it stands outside every .collections-menu         *)
(* element: a click on it that reaches the document listener takes the     *)
(* branch of lines 122-127 once the inline handler has run up to its first *)
(* await.                                                                  *)
(***************************************************************************)
Click == [propagationStopped |-> FALSE]

(* Faulty variant of stopPropagation: the call of line 14 left out. *)
keepPropagation(event) == event

(* Line 14: event.stopPropagation(). *)
stopPropagation(event) == [event EXCEPT !.propagationStopped = TRUE]

(* Lines 82-84, 122-127: what the document listener leaves of the displays *)
(* d when the event reaches it.                                            *)
bubble(event, d) ==
    IF event.propagationStopped THEN d ELSE [m \in MenuIds |-> "none"]

(***************************************************************************)
(* toggleCollectionsMenu(event, menuId), lines 13-41: from the click to    *)
(* the first await (or to a return).  event.stopPropagation() keeps the    *)
(* click from the document listener, so this is the whole of the click.    *)
(***************************************************************************)
toggleCollectionsMenu(menuId) ==
    LET event == stopPropagation(Click)
        others == hideOthers(menuId)
        hidden == { m \in Visible : m # menuId /\ others[m] = "none" }
        op == IF event.propagationStopped THEN "toggle" ELSE "toggleBubbled"
    IN  /\ UNCHANGED <<loaded, posts, posted>>
        /\ IF isVisible(menuId)
           THEN /\ display' = bubble(event, [others EXCEPT ![menuId] = "none"])
                /\ last' = Ran(op, menuId, hidden \cup {menuId}, FALSE, NoBody, 0, 0)
                /\ UNCHANGED <<innerHTML, pending, issued>>
           ELSE /\ display' = bubble(event, [others EXCEPT ![menuId] = "block"])
                /\ IF alreadyLoaded(menuId)
                   THEN /\ last' = Ran(op, menuId, hidden, FALSE, NoBody, 0, 0)
                        /\ UNCHANGED <<innerHTML, pending, issued>>
                   ELSE /\ Total(issued) < MaxGets
                        /\ innerHTML' = [innerHTML EXCEPT ![menuId] = Loading]
                        /\ pending' = [pending EXCEPT ![menuId] = @ + 1]
                        /\ issued' = [issued EXCEPT ![menuId] = @ + 1]
                        /\ last' = Ran(op, menuId, hidden, FALSE, NoBody, 1, 0)

(* Faulty variant of collectionsLoaded: the menu shown when its list lands. *)
collectionsLoadedAndShown(menuId, data) ==
    /\ pending[menuId] > 0
    /\ pending' = [pending EXCEPT ![menuId] = @ - 1]
    /\ innerHTML' = [innerHTML EXCEPT ![menuId] =
                        renderCollections(data, articleIdOf(menuId),
                            [i \in 1..Len(data.collections) |-> createElement(menuId, i)])]
    /\ loaded' = markLoaded(menuId)
    /\ display' = [display EXCEPT ![menuId] = "block"]
    /\ last' = Ran("loaded", menuId, {}, FALSE, data, 0, 0)
    /\ UNCHANGED <<issued, posts, posted>>

(***************************************************************************)
(* Lines 41-61: the GET of a suspended call on menuId comes back with HTTP *)
(* success and status 'ok'; the call renders the body and marks the menu.  *)
(***************************************************************************)
collectionsLoaded(menuId, data) ==
    /\ pending[menuId] > 0
    /\ pending' = [pending EXCEPT ![menuId] = @ - 1]
    /\ innerHTML' = [innerHTML EXCEPT ![menuId] =
                        renderCollections(data, articleIdOf(menuId),
                            [i \in 1..Len(data.collections) |-> createElement(menuId, i)])]
    /\ loaded' = markLoaded(menuId)
    /\ last' = Ran("loaded", menuId, {}, FALSE, data, 0, 0)
    /\ UNCHANGED <<display, issued, posts, posted>>

(* Faulty variant of collectionsFailed: the catch block without line 67. *)
collectionsFailedSilently(menuId, failure) ==
    /\ pending[menuId] > 0
    /\ pending' = [pending EXCEPT ![menuId] = @ - 1]
    /\ last' = Ran("loadFailed", menuId, {}, FALSE, NoBody, 0, 0)
    /\ UNCHANGED <<display, innerHTML, loaded, issued, posts, posted>>

(***************************************************************************)
(* Lines 42, 63, 65-68: the GET fails (any of Failures); the catch block   *)
(* writes the error message.                                               *)
(***************************************************************************)
collectionsFailed(menuId, failure) ==
    /\ pending[menuId] > 0
    /\ pending' = [pending EXCEPT ![menuId] = @ - 1]
    /\ innerHTML' = [innerHTML EXCEPT ![menuId] = ErrorLoading]
    /\ last' = Ran("loadFailed", menuId, {}, FALSE, NoBody, 0, 0)
    /\ UNCHANGED <<display, loaded, issued, posts, posted>>

(***************************************************************************)
(* The document click listener, lines 82-100: a click on the button of row *)
(* i of the open menu.  The handler keeps the element, its action and its  *)
(* data attributes, sends the POST and suspends.                           *)
(***************************************************************************)
actionOf(button) ==
    IF button.class = "btn-remove-from-collection" THEN "remove" ELSE "add"

(* Faulty variant of clickButton: the button swapped at the click itself. *)
clickButtonOptimistic(menuId, i) ==
    /\ display[menuId] = "block"
    /\ i \in 1..Len(innerHTML[menuId].entries)
    /\ posted < MaxPosts
    /\ posted' = posted + 1
    /\ LET target == innerHTML[menuId].entries[i].button
           p == [action |-> actionOf(target),
                 collectionId |-> target.collectionId,
                 articleId |-> target.articleId,
                 target |-> target.node]
       IN  /\ posts' = posts (+) SetToBag({p})
           /\ innerHTML' = [innerHTML EXCEPT ![menuId].entries[i].button =
                  IF p.action = "add"
                  THEN removeButton(p.collectionId, p.articleId,
                                    innerHTML[menuId].entries[i].name, target.node)
                  ELSE addButton(p.collectionId, p.articleId,
                                 innerHTML[menuId].entries[i].name, target.node)]
    /\ last' = Ran("click", menuId, {}, TRUE, NoBody, 1, 0)
    /\ UNCHANGED <<display, loaded, pending, issued>>

clickButton(menuId, i) ==
    /\ display[menuId] = "block"
    /\ i \in 1..Len(innerHTML[menuId].entries)
    /\ posted < MaxPosts
    /\ posted' = posted + 1
    /\ LET target == innerHTML[menuId].entries[i].button
       IN  posts' = posts (+) SetToBag({ [action |-> actionOf(target),
                                          collectionId |-> target.collectionId,
                                          articleId |-> target.articleId,
                                          target |-> target.node] })
    /\ last' = Ran("click", menuId, {}, TRUE, NoBody, 1, 0)
    /\ UNCHANGED <<display, innerHTML, loaded, pending, issued>>

(***************************************************************************)
(* Where an element stands in the document: the menu and row whose button  *)
(* it is.  An element that a later innerHTML assignment replaced is in no  *)
(* row: target.closest() then finds nothing (the button itself was         *)
(* replaced) or a container that left the document with it (the menu was   *)
(* rendered again), and in both cases the document stays as it is.         *)
(***************************************************************************)
Places(node) ==
    { x \in MenuIds \X (1..Len(CollectionIds)) :
        /\ x[2] <= Len(innerHTML[x[1]].entries)
        /\ innerHTML[x[1]].entries[x[2]].button.node = node }

MenuOf(node) ==
    IF Places(node) = {} THEN NoMenu ELSE (CHOOSE x \in Places(node) : TRUE)[1]

(* Faulty variant of newButton: the variants of lines 111-112 swapped. *)
sameButton(action, collectionId, articleId, collectionName, node) ==
    IF action = "add"
    THEN addButton(collectionId, articleId, collectionName, node)
    ELSE removeButton(collectionId, articleId, collectionName, node)

(* Lines 110-113: the opposite button, with the row's name, a new element. *)
newButton(action, collectionId, articleId, collectionName, node) ==
    IF action = "add"
    THEN removeButton(collectionId, articleId, collectionName, node)
    ELSE addButton(collectionId, articleId, collectionName, node)

(* Lines 105-113: buttonContainer.innerHTML = newButton, seen in the document. *)
swapped(p) ==
    [m \in MenuIds |->
       [innerHTML[m] EXCEPT !.entries =
          [i \in 1..Len(innerHTML[m].entries) |->
             IF <<m, i>> \in Places(p.target)
             THEN [innerHTML[m].entries[i] EXCEPT !.button =
                     newButton(p.action, p.collectionId, p.articleId,
                               innerHTML[m].entries[i].name,
                               createElement(m, i))]
             ELSE innerHTML[m].entries[i]]]]

(* Lines 101-114: the POST of click p comes back with status 'ok'. *)
actionSucceeded(p) ==
    /\ BagIn(p, posts)
    /\ posts' = posts (-) SetToBag({p})
    /\ innerHTML' = swapped(p)
    /\ last' = Ran("acted", MenuOf(p.target), {}, Places(p.target) # {}, NoBody, 0, 0)
    /\ UNCHANGED <<display, loaded, pending, issued, posted>>

(* Faulty variant of actionFailed: the swap done before the status test. *)
actionFailedAfterSwap(p, failure) ==
    /\ BagIn(p, posts)
    /\ posts' = posts (-) SetToBag({p})
    /\ innerHTML' = swapped(p)
    /\ last' = Ran("actionFailed", MenuOf(p.target), {}, Places(p.target) # {}, NoBody, 0, 1)
    /\ UNCHANGED <<display, loaded, pending, issued, posted>>

(* Lines 101, 116, 118-121: the POST of click p fails; one alert. *)
actionFailed(p, failure) ==
    /\ BagIn(p, posts)
    /\ posts' = posts (-) SetToBag({p})
    /\ last' = Ran("actionFailed", MenuOf(p.target), {}, Places(p.target) # {}, NoBody, 0, 1)
    /\ UNCHANGED <<display, innerHTML, loaded, pending, issued, posted>>

(* Faulty variant of clickOutside: the loop of lines 124-126 left out. *)
clickOutsideKeeps ==
    /\ last' = Ran("outside", NoMenu, {}, FALSE, NoBody, 0, 0)
    /\ UNCHANGED <<display, innerHTML, loaded, pending, issued, posts, posted>>

(***************************************************************************)
(* Lines 122-127: a click that is on no add/remove button and in no        *)
(* .collections-menu closes every menu.                                    *)
(***************************************************************************)
clickOutside ==
    /\ display' = [m \in MenuIds |-> "none"]
    /\ last' = Ran("outside", NoMenu, Visible, FALSE, NoBody, 0, 0)
    /\ UNCHANGED <<innerHTML, loaded, pending, issued, posts, posted>>

(* Lines 86-89, 122: a click in an open menu, on no add/remove button. *)
clickInside(menuId) ==
    /\ display[menuId] = "block"
    /\ last' = Ran("inside", menuId, {}, FALSE, NoBody, 0, 0)
    /\ UNCHANGED <<display, innerHTML, loaded, pending, issued, posts, posted>>

(* What the handlers of the collections menus never touch. *)
elsewhere == <<dateVars, serverVars>>

Next ==
    \/ \E m \in MenuIds : toggleCollectionsMenu(m) /\ UNCHANGED elsewhere
    \/ \E m \in MenuIds, d \in OkBodies : collectionsLoaded(m, d) /\ UNCHANGED elsewhere
    \/ \E m \in MenuIds, f \in Failures : collectionsFailed(m, f) /\ UNCHANGED elsewhere
    \/ \E m \in MenuIds, i \in 1..Len(CollectionIds) : clickButton(m, i) /\ UNCHANGED elsewhere
    \/ \E p \in BagToSet(posts) : actionSucceeded(p) /\ UNCHANGED elsewhere
    \/ \E p \in BagToSet(posts), f \in Failures : actionFailed(p, f) /\ UNCHANGED elsewhere
    \/ clickOutside /\ UNCHANGED elsewhere
    \/ \E m \in MenuIds : clickInside(m) /\ UNCHANGED elsewhere

Spec == Init /\ [][Next]_vars

(***************************************************************************)
(* Every GET that was sent gets its response: the continuation of a        *)
(* suspended toggleCollectionsMenu call, once its fetch has settled, is    *)
(* run by the event loop.  The user's clicks are under no such obligation, *)
(* and MaxGets bounds the fetches that the clicks of a behaviour start.    *)
(***************************************************************************)
Response(menuId) ==
    /\ \/ \E d \in OkBodies : collectionsLoaded(menuId, d)
       \/ \E f \in Failures : collectionsFailed(menuId, f)
    /\ UNCHANGED elsewhere

LiveSpec == Init /\ [][Next]_vars /\ \A m \in MenuIds : WF_vars(Response(m))

(***************************************************************************)
(* The page with a server that records membership.  A request is in flight *)
(* from the fetch call to the handler's continuation; the server processes *)
(* it at some moment in between, a GET by reading the membership of the    *)
(* article, a POST by writing it.  A request that fails has not been       *)
(* processed.                                                              *)
(***************************************************************************)
InitServer ==
    /\ Closed
    /\ Idle
    /\ member \in Memberships
    /\ inputs = [id \in DateInputIds |-> Absent]
    /\ dateFilter = [display |-> "", icon |-> "+"]
    /\ ready = TRUE

Count(bag, e) == IF BagIn(e, bag) THEN CopiesIn(e, bag) ELSE 0

(* collections_status: the collections with the article's membership. *)
collectionsStatus(articleId) ==
    [present |-> TRUE,
     collections |-> [k \in 1..Len(CollectionIds) |->
                        [id |-> CollectionIds[k], name |-> NameOf(CollectionIds[k]),
                         contains |-> member[<<articleId, CollectionIds[k]>>]]]]

(* The server processes a GET of menuId that is in flight. *)
serverGet(menuId) ==
    /\ pending[menuId] > BagCardinality(answers[menuId])
    /\ answers' = [answers EXCEPT ![menuId] =
                      @ (+) SetToBag({collectionsStatus(articleIdOf(menuId))})]
    /\ UNCHANGED <<menuVars, last, dateVars, member, acks>>

(* Lines 41-61 with the body that the server made for this GET. *)
getAnswered(menuId, data) ==
    /\ BagIn(data, answers[menuId])
    /\ answers' = [answers EXCEPT ![menuId] = @ (-) SetToBag({data})]
    /\ collectionsLoaded(menuId, data)
    /\ UNCHANGED <<dateVars, member, acks>>

(* Lines 42, 63, 65-68 for a GET that the server did not process. *)
getFailed(menuId, failure) ==
    /\ pending[menuId] > BagCardinality(answers[menuId])
    /\ collectionsFailed(menuId, failure)
    /\ UNCHANGED <<dateVars, serverVars>>

(* /collection/<id>/add_article, remove_article: the server applies a POST. *)
serverPost(p) ==
    /\ Count(posts, p) > Count(acks, p)
    /\ member' = [member EXCEPT ![<<p.articleId, p.collectionId>>] = (p.action = "add")]
    /\ acks' = acks (+) SetToBag({p})
    /\ UNCHANGED <<menuVars, last, dateVars, answers>>

(* Lines 101-114 for a POST that the server applied. *)
postAnswered(p) ==
    /\ BagIn(p, acks)
    /\ acks' = acks (-) SetToBag({p})
    /\ actionSucceeded(p)
    /\ UNCHANGED <<dateVars, member, answers>>

(* Lines 101, 116, 118-121 for a POST that the server did not apply. *)
postFailed(p, failure) ==
    /\ Count(posts, p) > Count(acks, p)
    /\ actionFailed(p, failure)
    /\ UNCHANGED <<dateVars, serverVars>>

NextServer ==
    \/ \E m \in MenuIds : toggleCollectionsMenu(m) /\ UNCHANGED elsewhere
    \/ \E m \in MenuIds : serverGet(m)
    \/ \E m \in MenuIds : \E d \in BagToSet(answers[m]) : getAnswered(m, d)
    \/ \E m \in MenuIds, f \in Failures : getFailed(m, f)
    \/ \E m \in MenuIds, i \in 1..Len(CollectionIds) : clickButton(m, i) /\ UNCHANGED elsewhere
    \/ \E p \in BagToSet(posts) : serverPost(p)
    \/ \E p \in BagToSet(acks) : postAnswered(p)
    \/ \E p \in BagToSet(posts), f \in Failures : postFailed(p, f)
    \/ clickOutside /\ UNCHANGED elsewhere
    \/ \E m \in MenuIds : clickInside(m) /\ UNCHANGED elsewhere

SpecServer == InitServer /\ [][NextServer]_vars

(***************************************************************************)
(*                               The claims                                *)
(***************************************************************************)

Rows(m) == 1..Len(innerHTML[m].entries)

(* The POST that the step answers: the one request the step takes out of   *)
(* the bag of suspended click handlers.                                    *)
Answered(p) == BagIn(p, posts) /\ posts' = posts (-) SetToBag({p})

(* The variant an answered 'add' (or 'remove') click asks for. *)
OppositeClass(action) ==
    IF action = "add" THEN "btn-remove-from-collection" ELSE "btn-add-to-collection"

(* aid is what follows the last '-' of the menu id m. *)
IsSuffixAfterLastDash(aid, m) ==
    \E k \in 1..Len(m) :
        /\ m[k] = "-"
        /\ aid = SubSeq(m, k + 1, Len(m))
        /\ \A j \in 1..Len(aid) : aid[j] # "-"

(* C1: in every reachable state at most one collections menu has display  *)
(* 'block'.                                                               *)
C1_AtMostOneMenuVisible ==
    \A m1, m2 \in MenuIds :
        display[m1] = "block" /\ display[m2] = "block" => m1 = m2

(* A toggle opened one menu and hid the other one, which was open. *)
C1_Witness ==
    /\ last.op = "toggle"
    /\ display[last.menu] = "block"
    /\ \E m \in last.hid : m # last.menu /\ display[m] = "none"

(* C2: once a menu's loaded flag is set, no step sends another GET         *)
(* collections_status for that menu.                                       *)
C2_LoadedMenuIsNotFetchedAgain ==
    [][\A m \in MenuIds : loaded[m] => issued'[m] = issued[m] /\ pending'[m] <= pending[m]]_vars

(* A toggle opened a menu that was loaded before; it sent nothing. *)
C2_Witness ==
    /\ last.op = "toggle"
    /\ last.fetches = 0
    /\ loaded[last.menu]
    /\ display[last.menu] = "block"

(* C3 as stated: no menu is ever sent more than one GET. *)
C3_AtMostOneGetPerMenu == \A m \in MenuIds : issued[m] <= 1

(* C3 as amended: a GET beyond a menu's first is sent only while an        *)
(* earlier GET of that menu is still pending or while the menu shows the   *)
(* error message of a failed load.                                         *)
C3_SecondGetOnlyAfterFailureOrWhilePending ==
    [][\A m \in MenuIds :
          issued'[m] > issued[m] =>
              \/ issued[m] = 0
              \/ pending[m] > 0
              \/ (innerHTML[m] = ErrorLoading /\ ~loaded[m])]_vars

(* The second GET of a menu, sent after its first one had failed. *)
C3_Witness ==
    /\ last.op = "toggle"
    /\ last.fetches = 1
    /\ issued[last.menu] = 2
    /\ pending[last.menu] = 1

(* C4: a failed load leaves the error message and an unset loaded flag,    *)
(* and a toggle that opens a menu showing the error message sends a GET.   *)
C4_FailedLoadIsRetried ==
    [][\A m \in MenuIds :
          /\ (last'.op = "loadFailed" /\ last'.menu = m)
                => (innerHTML'[m] = ErrorLoading /\ ~loaded'[m])
          /\ (innerHTML[m] = ErrorLoading /\ last'.op = "toggle" /\ last'.menu = m
                /\ display'[m] = "block")
                => (last'.fetches = 1 /\ issued'[m] = issued[m] + 1)]_vars

(* C5: a toggle on a visible menu hides it, sends no request and leaves    *)
(* the menu's content and loaded flag as they were.                        *)
C5_ToggleOffOnlyHides ==
    [][\A m \in MenuIds :
          (last'.op = "toggle" /\ last'.menu = m /\ display[m] = "block") =>
              /\ display'[m] = "none"
              /\ last'.fetches = 0
              /\ issued' = issued
              /\ pending' = pending
              /\ posts' = posts
              /\ innerHTML'[m] = innerHTML[m]
              /\ loaded'[m] = loaded[m]]_vars

(* A toggle closed a never-loaded menu whose fetch is still pending. *)
C5_Witness ==
    /\ last.op = "toggle"
    /\ last.menu \in last.hid
    /\ display[last.menu] = "none"
    /\ pending[last.menu] > 0
    /\ ~loaded[last.menu]

(* C6 as stated: when the POST of a click comes back with status 'ok', the *)
(* button shown in the row of that collection, in the menu of that         *)
(* article, is the opposite variant with the click's ids, and the other    *)
(* rows are as before.                                                     *)
C6_SuccessSwapsTheShownButton ==
    [][\A p \in BagToSet(posts) :
          (last'.op = "acted" /\ Answered(p)) =>
              \A m \in MenuIds : \A i \in Rows(m) :
                  IF articleIdOf(m) = p.articleId
                     /\ innerHTML[m].entries[i].collectionId = p.collectionId
                  THEN /\ Len(innerHTML'[m].entries) = Len(innerHTML[m].entries)
                       /\ innerHTML'[m].entries[i].button.class = OppositeClass(p.action)
                       /\ innerHTML'[m].entries[i].button.collectionId = p.collectionId
                       /\ innerHTML'[m].entries[i].button.articleId = p.articleId
                  ELSE innerHTML'[m].entries[i] = innerHTML[m].entries[i]]_vars

(* C6 as amended: when the POST of a click comes back with status 'ok' and *)
(* the clicked button is still the one shown in its row, that row's button *)
(* becomes the opposite variant with the same collection id and article    *)
(* id; every other row, and every menu when the clicked button has been    *)
(* replaced meanwhile, is as before.                                       *)
C6_SuccessSwapsTheClickedButtonInPlace ==
    [][\A p \in BagToSet(posts) :
          (last'.op = "acted" /\ Answered(p)) =>
              \A m \in MenuIds :
                  /\ Len(innerHTML'[m].entries) = Len(innerHTML[m].entries)
                  /\ [innerHTML'[m] EXCEPT !.entries = <<>>] = [innerHTML[m] EXCEPT !.entries = <<>>]
                  /\ \A i \in Rows(m) :
                        IF innerHTML[m].entries[i].button.node = p.target
                        THEN /\ innerHTML'[m].entries[i].button.class = OppositeClass(p.action)
                             /\ innerHTML[m].entries[i].button.class # OppositeClass(p.action)
                             /\ innerHTML'[m].entries[i].button.collectionId
                                  = innerHTML[m].entries[i].button.collectionId
                             /\ innerHTML'[m].entries[i].button.articleId
                                  = innerHTML[m].entries[i].button.articleId
                             /\ innerHTML'[m].entries[i].button.collectionId = p.collectionId
                             /\ innerHTML'[m].entries[i].button.articleId = p.articleId
                             /\ innerHTML'[m].entries[i].collectionId = innerHTML[m].entries[i].collectionId
                             /\ innerHTML'[m].entries[i].name = innerHTML[m].entries[i].name
                        ELSE innerHTML'[m].entries[i] = innerHTML[m].entries[i]]_vars

(* A success answer swapped the clicked button of a menu with two rows. *)
C6_Witness ==
    /\ last.op = "acted"
    /\ last.inPlace
    /\ last.menu \in MenuIds
    /\ Len(innerHTML[last.menu].entries) = 2

(* C7: when the POST of a click fails, the handler shows exactly one alert *)
(* and is over, and no menu's content, visibility or loaded flag changes;  *)
(* no other handler run shows an alert.                                    *)
C7_FailureOnlyAlertsOnce ==
    [][IF last'.op = "actionFailed"
       THEN /\ last'.alerts = 1
            /\ \E p \in BagToSet(posts) : Answered(p)
            /\ innerHTML' = innerHTML
            /\ display' = display
            /\ loaded' = loaded
            /\ pending' = pending
       ELSE last'.alerts = 0]_vars

(* A failure answer came for a click whose button is still in its row. *)
C7_Witness ==
    /\ last.op = "actionFailed"
    /\ last.inPlace
    /\ last.alerts = 1

(* C8: a click outside every menu, on no add/remove button, leaves every   *)
(* menu hidden; a click inside a menu, on no add/remove button, changes no *)
(* menu's visibility and sends no request.                                 *)
C8_OutsideClosesInsideKeeps ==
    [][/\ last'.op = "outside" => \A m \in MenuIds : display'[m] = "none"
       /\ last'.op = "inside" =>
            /\ display' = display
            /\ last'.fetches = 0
            /\ issued' = issued
            /\ pending' = pending
            /\ posts' = posts
            /\ posted' = posted]_vars

(* A click outside closed a menu that was open. *)
C8_Witness ==
    /\ last.op = "outside"
    /\ last.hid # {}
    /\ \A m \in MenuIds : display[m] = "none"

(* C9: after a successful load of a non-empty list the menu has one row    *)
(* per returned collection, in order; each row's button is the remove      *)
(* variant if contains is true and the add variant otherwise, with that    *)
(* entry's collection id and the menu's article id.                        *)
C9_RowsFollowTheReturnedList ==
    (last.op = "loaded" /\ last.data.present /\ Len(last.data.collections) > 0) =>
        LET content == innerHTML[last.menu]
            list == last.data.collections
        IN  /\ content.listContainer
            /\ Len(content.entries) = Len(list)
            /\ \A i \in 1..Len(list) :
                  /\ content.entries[i].collectionId = list[i].id
                  /\ content.entries[i].name = list[i].name
                  /\ content.entries[i].button.class =
                        (IF list[i].contains THEN "btn-remove-from-collection"
                         ELSE "btn-add-to-collection")
                  /\ content.entries[i].button.collectionId = list[i].id
                  /\ IsSuffixAfterLastDash(content.entries[i].button.articleId, last.menu)

(* A load rendered two rows, one of each variant. *)
C9_Witness ==
    /\ last.op = "loaded"
    /\ Len(last.data.collections) = 2
    /\ last.data.collections[1].contains
    /\ ~last.data.collections[2].contains
    /\ Len(innerHTML[last.menu].entries) = 2

(* C10: after a successful load of an empty or absent list the content is  *)
(* the empty-state message with its create link and no list container,     *)
(* and the loaded flag is set.                                             *)
C10_EmptyListRendersEmptyState ==
    (last.op = "loaded" /\ (~last.data.present \/ Len(last.data.collections) = 0)) =>
        /\ innerHTML[last.menu].text = "No collections yet."
        /\ innerHTML[last.menu].createLink
        /\ ~innerHTML[last.menu].listContainer
        /\ innerHTML[last.menu].entries = <<>>
        /\ loaded[last.menu]

(* A load answered with an empty list. *)
C10_Witness ==
    /\ last.op = "loaded"
    /\ last.data.present
    /\ last.data.collections = <<>>
    /\ innerHTML[last.menu] = NoCollections


(***************************************************************************)
(* The date filter (SpecDate).                                             *)
(***************************************************************************)
Shown(filter) == filter.display \notin {"none", ""}
Filled(id) == inputs[id].present /\ inputs[id].value # ""

(* C11: after the page has loaded, if the start_date input or the end_date *)
(* input holds a non-empty value, the date-filter region is shown with     *)
(* icon '-', whichever of the two inputs the page has.                     *)
C11_FilledDateExpandsFilter ==
    (last.op = "DOMContentLoaded" /\ \E id \in DateInputIds : Filled(id))
        => dateFilter = [display |-> "block", icon |-> "-"]

(* C12: the icon is '-' exactly when the region is shown and '+' exactly   *)
(* when it is hidden; a call flips shown/hidden, an empty display counting *)
(* as hidden, and two calls in a row restore shown/hidden and the icon.    *)
C12_ToggleFlipsRegionAndIcon ==
    [][ /\ dateFilter'.icon = IF Shown(dateFilter') THEN "-" ELSE "+"
        /\ last'.op = "toggleDateFilters" =>
              /\ Shown(dateFilter') = ~Shown(dateFilter)
              /\ Shown(toggled(dateFilter')) = Shown(dateFilter)
              /\ toggled(dateFilter').icon = dateFilter.icon ]_vars

C12_Witness ==
    /\ last.op = "toggleDateFilters"
    /\ dateFilter = [display |-> "block", icon |-> "-"]
    /\ ~datesArePresent


(* C13: an opening toggle of a menu whose flag is unset sends a GET even   *)
(* while an earlier fetch of that menu is pending, so that two GETs of one *)
(* never-loaded menu are in flight together (the witness).                 *)
C13_ReopeningWhilePendingFetchesAgain ==
    [][\A m \in MenuIds :
          (/\ last'.op = "toggle" /\ last'.menu = m
           /\ display[m] # "block" /\ ~loaded[m] /\ pending[m] > 0) =>
              /\ pending'[m] = pending[m] + 1
              /\ last'.fetches = 1
              /\ ~loaded'[m]]_vars

C13_Witness ==
    \E m \in MenuIds :
        /\ pending[m] = 2
        /\ ~loaded[m]
        /\ last.op = "toggle" /\ last.menu = m /\ last.fetches = 1

(* The buttons of the clicks that changed between two states. *)
ChangedButtons ==
    { x \in MenuIds \X (1..Len(CollectionIds)) :
        /\ x[2] \in Rows(x[1])
        /\ \/ x[2] > Len(innerHTML'[x[1]].entries)
           \/ innerHTML'[x[1]].entries[x[2]].button # innerHTML[x[1]].entries[x[2]].button }

(* C14: the click on an add/remove button changes no content, visibility   *)
(* or flag; of the steps of the click handler, only the one that takes a   *)
(* success answer changes a button, and it changes the button that the     *)
(* answered click was made on into the variant that click asked for.       *)
C14_SwapOnlyOnSuccessOfThatPost ==
    [][ /\ last'.op = "click" => UNCHANGED <<innerHTML, display, loaded>>
        /\ last'.op \in {"click", "acted", "actionFailed"} =>
              \A x \in ChangedButtons :
                  /\ last'.op = "acted"
                  /\ \E p \in BagToSet(posts) :
                        /\ Answered(p)
                        /\ innerHTML[x[1]].entries[x[2]].button.node = p.target
                        /\ innerHTML'[x[1]].entries[x[2]].button.class = OppositeClass(p.action) ]_vars

(* A click is waiting for its answer and its button is as it was clicked. *)
C14_Witness ==
    /\ last.op = "click"
    /\ \E p \in BagToSet(posts) : \E x \in Places(p.target) :
          actionOf(innerHTML[x[1]].entries[x[2]].button) = p.action


(* C15: a click that runs toggleCollectionsMenu does not reach the         *)
(* document listener, and the menu it opens is open when the click is over. *)
C15_ToggleClickStopsAtTheToggle ==
    [][\A m \in MenuIds :
          (last'.op \in {"toggle", "toggleBubbled"} /\ last'.menu = m) =>
              /\ last'.op = "toggle"
              /\ display[m] # "block" => display'[m] = "block"]_vars

(* A click opened a menu, closing the one that was open. *)
C15_Witness ==
    /\ last.op = "toggle"
    /\ last.menu \in MenuIds
    /\ last.hid # {}
    /\ last.menu \notin last.hid
    /\ display[last.menu] = "block"

(* C16 as stated: after every successful load the content of the menu has  *)
(* the footer link.                                                        *)
C16_LoadedContentHasFooter ==
    last.op = "loaded" => innerHTML[last.menu].footer

(* C16 as amended: after a successful load the content has the footer link *)
(* exactly when the returned list is non-empty; for an empty or absent     *)
(* list it is the empty-state message with its own create link, no footer. *)
C16_FooterOnlyWithNonEmptyList ==
    last.op = "loaded" =>
        LET nonEmpty == last.data.present /\ Len(last.data.collections) > 0
        IN  /\ innerHTML[last.menu].footer = nonEmpty
            /\ innerHTML[last.menu].createLink = ~nonEmpty

(* An empty list was loaded: no footer; and a list with rows: footer. *)
C16_Witness ==
    /\ last.op = "loaded"
    /\ last.data.present
    /\ last.data.collections = <<>>
    /\ ~innerHTML[last.menu].footer
    /\ \E m \in MenuIds : innerHTML[m].footer

(* C17: a menu whose loaded flag is set shows neither 'Loading...' nor     *)
(* 'Error loading.'.                                                       *)
C17_LoadedMenuShowsRenderedContent ==
    \A m \in MenuIds :
        loaded[m] => innerHTML[m] \notin {Loading, ErrorLoading}

(* C19: the arrival of a GET response, a click on an add/remove button, the *)
(* arrival of a POST response and a click inside a menu leave the          *)
(* visibility of every menu as it was.                                     *)
C19_OnlyToggleAndOutsideChangeVisibility ==
    [][last'.op \in {"loaded", "loadFailed", "click", "acted", "actionFailed", "inside"}
          => display' = display]_vars

(* The list of a menu closed during its fetch landed; the menu is closed. *)
C19_Witness ==
    /\ last.op = "loaded"
    /\ display[last.menu] = "none"
    /\ loaded[last.menu]


(***************************************************************************)
(* The page and the server (SpecServer).                                   *)
(***************************************************************************)
Quiet ==
    /\ \A m \in MenuIds : pending[m] = 0
    /\ posts = EmptyBag

(* C18: whenever no request is in flight, each row of a loaded menu shows  *)
(* the remove variant exactly when the server has the menu's article in    *)
(* that row's collection.                                                  *)
C18_QuietButtonsMatchMembership ==
    Quiet =>
        \A m \in MenuIds : \A i \in Rows(m) :
            loaded[m] =>
                (innerHTML[m].entries[i].button.class = "btn-remove-from-collection")
                    = member[<<articleIdOf(m), innerHTML[m].entries[i].collectionId>>]

(* C20: when every GET that was sent gets a response and the clicks start  *)
(* finitely many fetches, every menu sooner or later stops showing         *)
(* 'Loading...' for good, with no fetch of it left in flight.              *)
C20_LoadingEventuallyGoesForGood ==
    <>[](\A m \in MenuIds : innerHTML[m] # Loading /\ pending[m] = 0)

(* Every fetch has been sent and answered; no menu shows the placeholder. *)
C20_Witness ==
    /\ Total(issued) = MaxGets
    /\ \A m \in MenuIds : pending[m] = 0 /\ innerHTML[m] # Loading
    /\ \E m \in MenuIds : innerHTML[m] = ErrorLoading

====
